---- MODULE Spec2Model ----
(***************************************************************************)
(* Model of network_info.c (system_stats): ReadNetworkInformations walks   *)
(* the getifaddrs() list and, for every AF_INET entry, reads nine counters *)
(* from /sys/class/net/<if>/... through ReadFileContent and appends one    *)
(* row to the tuplestore.                                                  *)
(*                                                                         *)
(* Strings whose bytes matter (interface names, file lines) are sequences  *)
(* of one-character strings; a zeroed buffer is the empty sequence.        *)
(* 64-bit integers are scaled to WordBits bits (TLC integers are 32-bit):  *)
(* uint64 is 0..Modulus-1 and int64 is -Half..Half-1.                      *)
(***************************************************************************)
EXTENDS Integers, Sequences, FiniteSets, TLC

\* ------------------------------------------------------------------ bounds
MaxEntries == 2
WordBits == 16

Modulus == 2 ^ WordBits
Half == 2 ^ (WordBits - 1)
LLONG_MAX == Half - 1
LLONG_MIN == 0 - Half

\* ------------------------------------------------------------- environment
eth0 == <<"e", "t", "h", "0">>
lo == <<"l", "o">>
Names == {eth0, lo}

\* The nine counters, in the order ReadNetworkInformations reads them.
ReadOrder ==
  <<"speed_mbps", "rx_bytes", "tx_bytes", "rx_packets", "tx_packets",
    "rx_errors", "tx_errors", "rx_dropped", "tx_dropped">>
Kinds == {ReadOrder[i] : i \in 1..Len(ReadOrder)}

\* A file of sysfs: absent (fopen fails), unreadable (fopen succeeds, the
\* read fails) or readable with the given bytes.
NoFile == [st |-> "absent", bytes |-> <<>>]
ReadErr == [st |-> "eio", bytes |-> <<>>]
File(bytes) == [st |-> "ok", bytes |-> bytes]
FaultStates == {NoFile, ReadErr, File(<<>>)}

\* Contents of the files of lo.
LoContent ==
  [k \in Kinds |->
     CASE k = "speed_mbps" -> <<"-", "1", "\n">>
       [] k = "rx_bytes" -> <<"1", "2", "3", "4", "5", "\n">>
       [] k = "tx_bytes" -> <<"9", "9", "9", "9", "9", "\n">>
       [] k = "rx_packets" -> <<"a", "b", "c", "\n">>
       [] k = "tx_packets" -> <<" ", "4", "2", "\n">>
       [] k = "rx_errors" -> <<"1", "2", "a", "\n">>
       [] k = "tx_errors" -> <<"5", "0", "0">>
       [] k = "rx_dropped" -> <<"\n">>
       [] OTHER -> <<"+", "7", "\n", "8", "\n">>]

KindIndex(k) == CHOOSE i \in 1..Len(ReadOrder) : ReadOrder[i] = k
DigitChars == <<"0", "1", "2", "3", "4", "5", "6", "7", "8", "9">>

\* Contents of the files of eth0: the counter's position in ReadOrder, 1..9.
Eth0Content == [k \in Kinds |-> <<DigitChars[KindIndex(k) + 1], "\n">>]

BaseSysfs ==
  [n \in Names |-> [k \in Kinds |->
     IF n = eth0 THEN File(Eth0Content[k]) ELSE File(LoContent[k])]]

\* The file systems considered: the base one, and the base one with one
\* counter file of eth0 absent, unreadable or empty.
SysfsEnvs ==
  {BaseSysfs} \cup
  {[BaseSysfs EXCEPT ![eth0][k] = s] : k \in Kinds, s \in FaultStates}

\* What atoll does with a value out of range (undefined in C): glibc's
\* strtoll saturates, a plain accumulation loop wraps.
Libcs == {"saturate", "wrap"}

AF_INET == "AF_INET"
AF_PACKET == "AF_PACKET"
NullAddr == [sa_family |-> "NULL", gni |-> "none"]
SockAddrs ==
  {NullAddr,
   [sa_family |-> AF_PACKET, gni |-> "EAI_FAMILY"],
   [sa_family |-> AF_INET, gni |-> "ok"],
   [sa_family |-> AF_INET, gni |-> "EAI_FAIL"]}
Entries == [ifa_name : Names, ifa_addr : SockAddrs]

\* The i-th entry's IPv4 address is 10.0.0.i.
SinAddr(i) == <<10, 0, 0, i>>

IfaddrsLists == UNION {[1..n -> Entries] : n \in 0..MaxEntries}

VARIABLES
  os_ifaddrs,       \* environment: the list getifaddrs would return
  getifaddrs_ret,   \* environment: 0 or -1
  sysfs,            \* environment: Names -> Kinds -> file
  libc,             \* environment: atoll's out-of-range behaviour
  pc,               \* "idle", "loop", "returned", "error"
  call,             \* "none", "first", "second"
  ifa,              \* index of the current entry; Len+1 is NULL
  held,             \* TRUE while the getifaddrs list is allocated
  frees,            \* calls of freeifaddrs in the current invocation
  host,
  nulls,
  interface_name,
  ipv4_address,
  ipv6_address,
  cnt,              \* the nine uint64 locals
  tupstore,         \* rows appended by the current invocation
  log,              \* diagnostics of the current invocation
  first             \* outcome of the first invocation, once the second starts

env == <<os_ifaddrs, getifaddrs_ret, sysfs, libc>>
locals == <<host, nulls, interface_name, ipv4_address, ipv6_address, cnt>>
vars == <<env, pc, call, ifa, held, frees, locals, tupstore, log, first>>

\* ---------------------------------------------------------- pure functions
IsSpace(c) == c \in {" ", "\t", "\n"}
IsDigit(c) == \E i \in 1..Len(DigitChars) : DigitChars[i] = c
DigitVal(c) == (CHOOSE i \in 1..Len(DigitChars) : DigitChars[i] = c) - 1

RECURSIVE SkipSpace(_)
SkipSpace(s) ==
  IF s # <<>> /\ IsSpace(Head(s)) THEN SkipSpace(Tail(s)) ELSE s

\* The value of the longest prefix of digits of s, continuing from acc.
RECURSIVE DigitsValue(_, _)
DigitsValue(s, acc) ==
  IF s # <<>> /\ IsDigit(Head(s))
    THEN DigitsValue(Tail(s), 10 * acc + DigitVal(Head(s)))
    ELSE acc

\* atoll on an out-of-range value: undefined behaviour, resolved by libc.
Overflowed(v, lc) ==
  IF lc = "saturate"
    THEN (IF v > LLONG_MAX THEN LLONG_MAX ELSE LLONG_MIN)
    ELSE ((v + Half) % Modulus) - Half

\* atoll: optional white space, optional sign, digits; anything else ends it.
atoll(s, lc) ==
  LET t == SkipSpace(s)
      signed == t # <<>> /\ Head(t) \in {"-", "+"}
      neg == t # <<>> /\ Head(t) = "-"
      d == IF signed THEN Tail(t) ELSE t
      m == DigitsValue(d, 0)
      v == IF neg THEN 0 - m ELSE m
  IN IF v >= LLONG_MIN /\ v <= LLONG_MAX THEN v ELSE Overflowed(v, lc)

\* Conversion of a long long to uint64 (the assignment *data = atoll(...)).
ToUint64(v) == v % Modulus

\* Int64GetDatumFast: the uint64 local is stored as an int64 datum.
Int64GetDatumFast(x) == IF x >= Half THEN x - Modulus ELSE x

\* getline: the bytes up to and including the first newline; at end of file
\* or on a read error there is no line and the size is -1.
RECURSIVE FirstLine(_)
FirstLine(b) ==
  IF b = <<>> THEN <<>>
  ELSE IF Head(b) = "\n" THEN <<"\n">>
  ELSE <<Head(b)>> \o FirstLine(Tail(b))

getline(f) ==
  LET line == IF f.st = "ok" THEN FirstLine(f.bytes) ELSE <<>>
  IN [line_buf |-> line, line_size |-> IF line = <<>> THEN 0 - 1 ELSE Len(line)]

\* fopen(path, "r"): the file, or NoFile when there is none at that path.
fopen(file_name, fs) ==
  IF file_name.dir \in DOMAIN fs /\ file_name.leaf \in DOMAIN fs[file_name.dir]
    THEN fs[file_name.dir][file_name.leaf]
    ELSE NoFile

\* ereport: the level, the message and, for a file, its path.
NoPath == [dir |-> <<>>, leaf |-> ""]
Warning(file_name) ==
  [level |-> "WARNING", msg |-> "can not open file", file |-> file_name]
Error(msg) == [level |-> "ERROR", msg |-> msg, file |-> NoPath]

\* ReadFileContent with the failure to open marked by -1 in *data.
ReadFileContentMinusOne(file_name, data, fs, lc) ==
  LET fp == fopen(file_name, fs)
      got == getline(fp)
  IN IF fp.st = "absent"
       THEN [data |-> ToUint64(0 - 1), diag |-> <<Warning(file_name)>>]
       ELSE [data |-> IF got.line_size > 0
                        THEN ToUint64(atoll(got.line_buf, lc))
                        ELSE data,
             diag |-> <<>>]

\* ReadFileContent with a warning also when getline gives no line.
ReadFileContentWarnNoLine(file_name, data, fs, lc) ==
  LET fp == fopen(file_name, fs)
      got == getline(fp)
  IN IF fp.st = "absent"
       THEN [data |-> data, diag |-> <<Warning(file_name)>>]
       ELSE [data |-> IF got.line_size > 0
                        THEN ToUint64(atoll(got.line_buf, lc))
                        ELSE data,
             diag |-> IF got.line_size > 0 THEN <<>> ELSE <<Warning(file_name)>>]

\* ReadFileContent(file_name, data): the new *data and the diagnostics.
ReadFileContent(file_name, data, fs, lc) ==
  LET fp == fopen(file_name, fs)
      got == getline(fp)
  IN IF fp.st = "absent"
       THEN [data |-> data, diag |-> <<Warning(file_name)>>]
       ELSE [data |-> IF got.line_size > 0
                        THEN ToUint64(atoll(got.line_buf, lc))
                        ELSE data,
             diag |-> <<>>]

\* sprintf of the path: /sys/class/net/<interface>/<leaf>; the leaf is named
\* by the counter it holds.
SysPath(interface, k) == [dir |-> interface, leaf |-> k]

ReadSpeedMbps(interface, data, fs, lc) ==
  ReadFileContent(SysPath(interface, "speed_mbps"), data, fs, lc)
ReadReceiveBytes(interface, data, fs, lc) ==
  ReadFileContent(SysPath(interface, "rx_bytes"), data, fs, lc)
ReadTransmitBytes(interface, data, fs, lc) ==
  ReadFileContent(SysPath(interface, "tx_bytes"), data, fs, lc)
ReadReceivePackets(interface, data, fs, lc) ==
  ReadFileContent(SysPath(interface, "rx_packets"), data, fs, lc)
ReadTransmitPackets(interface, data, fs, lc) ==
  ReadFileContent(SysPath(interface, "tx_packets"), data, fs, lc)
ReadReceiveErrors(interface, data, fs, lc) ==
  ReadFileContent(SysPath(interface, "rx_errors"), data, fs, lc)
ReadTransmitErrors(interface, data, fs, lc) ==
  ReadFileContent(SysPath(interface, "tx_errors"), data, fs, lc)
ReadReceiveDropped(interface, data, fs, lc) ==
  ReadFileContent(SysPath(interface, "rx_dropped"), data, fs, lc)
ReadTransmitDropped(interface, data, fs, lc) ==
  ReadFileContent(SysPath(interface, "tx_dropped"), data, fs, lc)

\* The reader of each counter, as called at lines 231-239.
ReadCounter(k, interface, data, fs, lc) ==
  CASE k = "speed_mbps" -> ReadSpeedMbps(interface, data, fs, lc)
    [] k = "rx_bytes" -> ReadReceiveBytes(interface, data, fs, lc)
    [] k = "tx_bytes" -> ReadTransmitBytes(interface, data, fs, lc)
    [] k = "rx_packets" -> ReadReceivePackets(interface, data, fs, lc)
    [] k = "tx_packets" -> ReadTransmitPackets(interface, data, fs, lc)
    [] k = "rx_errors" -> ReadReceiveErrors(interface, data, fs, lc)
    [] k = "tx_errors" -> ReadTransmitErrors(interface, data, fs, lc)
    [] k = "rx_dropped" -> ReadReceiveDropped(interface, data, fs, lc)
    [] OTHER -> ReadTransmitDropped(interface, data, fs, lc)

\* The nine reads in order: the counters after them and the diagnostics.
RECURSIVE ReadAll(_, _, _, _, _)
ReadAll(i, interface, c, fs, lc) ==
  IF i > Len(ReadOrder) THEN [cnt |-> c, diag |-> <<>>]
  ELSE LET k == ReadOrder[i]
           r == ReadCounter(k, interface, c[k], fs, lc)
           rest == ReadAll(i + 1, interface, [c EXCEPT ![k] = r.data], fs, lc)
       IN [cnt |-> rest.cnt, diag |-> r.diag \o rest.diag]

\* getnameinfo(..., NI_NUMERICHOST) of an AF_INET address: dotted decimal.
NumericHost(a) ==
  <<ToString(a[1]), ".", ToString(a[2]), ".", ToString(a[3]), ".", ToString(a[4])>>

\* getnameinfo on entry i: the return value and the host buffer after it.
\* Only a successful conversion writes the buffer.
getnameinfo(e, i, h) ==
  IF e.ifa_addr.gni = "ok"
    THEN [ret_val |-> "0", host |-> NumericHost(SinAddr(i))]
    ELSE [ret_val |-> e.ifa_addr.gni, host |-> h]

\* memcpy(dst, src, strlen(src)): the bytes of src over the start of dst; what
\* dst held beyond them stays.
MemcpyStr(dst, src) ==
  IF Len(dst) > Len(src) THEN src \o SubSeq(dst, Len(src) + 1, Len(dst)) ELSE src

\* memset(buf, 0, MAXPGPATH)
Zeroed == <<>>
ZeroCounters == [k \in Kinds |-> 0]
Attrs == {"interface_name", "ipv4_address", "ipv6_address"} \cup Kinds
NoNulls == [a \in Attrs |-> FALSE]

\* The row handed to tuplestore_putvalues: values[] and nulls[].
Row(name, v4, v6, c, nl) ==
  [interface_name |-> name, ipv4_address |-> v4, ipv6_address |-> v6,
   counters |-> [k \in Kinds |-> Int64GetDatumFast(c[k])],
   nulls |-> nl]

\* ------------------------------------------------------------------- state
NoOutcome == [pc |-> "none", tupstore |-> <<>>, log |-> <<>>]

Init ==
  /\ getifaddrs_ret \in {0, 0 - 1}
  /\ os_ifaddrs \in (IF getifaddrs_ret = 0 THEN IfaddrsLists ELSE {<<>>})
  /\ sysfs \in SysfsEnvs
  /\ libc \in Libcs
  /\ pc = "idle"
  /\ call = "none"
  /\ ifa = 1
  /\ held = FALSE
  /\ frees = 0
  /\ host = Zeroed
  /\ nulls = NoNulls
  /\ interface_name = Zeroed
  /\ ipv4_address = Zeroed
  /\ ipv6_address = Zeroed
  /\ cnt = ZeroCounters
  /\ tupstore = <<>>
  /\ log = <<>>
  /\ first = NoOutcome

\* Entry of ReadNetworkInformations with a fresh tuplestore: the locals are
\* initialised (lines 174-195).  A second invocation follows the first once
\* it has ended, against the same environment.
Enter ==
  /\ \/ pc = "idle" /\ call = "none" /\ call' = "first" /\ first' = first
     \/ /\ pc \in {"returned", "error"} /\ call = "first"
        /\ call' = "second"
        /\ first' = [pc |-> pc, tupstore |-> tupstore, log |-> log]
  /\ pc' = "getifaddrs"
  /\ ifa' = 1
  /\ frees' = 0
  /\ host' = Zeroed
  /\ nulls' = NoNulls
  /\ interface_name' = Zeroed
  /\ ipv4_address' = Zeroed
  /\ ipv6_address' = Zeroed
  /\ cnt' = ZeroCounters
  /\ tupstore' = <<>>
  /\ log' = <<>>
  /\ UNCHANGED <<env, held>>

\* getifaddrs() == -1: ereport(ERROR) leaves the function (lines 200-206).
GetIfAddrsFailed ==
  /\ pc = "getifaddrs"
  /\ getifaddrs_ret # 0
  /\ pc' = "error"
  /\ log' = Append(log, Error("Failed to get network interface"))
  /\ UNCHANGED <<env, call, ifa, held, frees, locals, tupstore, first>>

\* getifaddrs() succeeded: ifa = ifaddr (line 209).
GetIfAddrs ==
  /\ pc = "getifaddrs"
  /\ getifaddrs_ret = 0
  /\ pc' = "loop"
  /\ held' = TRUE
  /\ ifa' = 1
  /\ UNCHANGED <<env, call, frees, locals, tupstore, log, first>>

AtEntry == pc = "loop" /\ ifa <= Len(os_ifaddrs)

\* An entry without address: continue (lines 212-213).
SkipNullAddr ==
  /\ AtEntry
  /\ os_ifaddrs[ifa].ifa_addr = NullAddr
  /\ ifa' = ifa + 1
  /\ UNCHANGED <<env, pc, call, held, frees, locals, tupstore, log, first>>

\* An entry of another family: getnameinfo is called, nothing else (216-218).
SkipOtherFamily ==
  /\ AtEntry
  /\ os_ifaddrs[ifa].ifa_addr # NullAddr
  /\ os_ifaddrs[ifa].ifa_addr.sa_family # AF_INET
  /\ host' = getnameinfo(os_ifaddrs[ifa], ifa, host).host
  /\ ifa' = ifa + 1
  /\ UNCHANGED <<env, pc, call, held, frees, nulls, interface_name,
                 ipv4_address, ipv6_address, cnt, tupstore, log, first>>

\* An AF_INET entry whose conversion failed: ereport(ERROR) leaves the
\* function; line 225 and everything after it are not executed (216-226).
GetNameInfoFailed ==
  /\ AtEntry
  /\ os_ifaddrs[ifa].ifa_addr # NullAddr
  /\ os_ifaddrs[ifa].ifa_addr.sa_family = AF_INET
  /\ LET g == getnameinfo(os_ifaddrs[ifa], ifa, host)
     IN /\ g.ret_val # "0"
        /\ host' = g.host
        /\ log' = Append(log, Error("getnameinfo() failed"))
  /\ pc' = "error"
  /\ UNCHANGED <<env, call, ifa, held, frees, nulls, interface_name,
                 ipv4_address, ipv6_address, cnt, tupstore, first>>

\* tuplestore_putvalues putting the row first.
PutValuesFront(store, row) == <<row>> \o store

\* tuplestore_putvalues called twice for a row.
PutValuesTwice(store, row) == Append(Append(store, row), row)

\* tuplestore_putvalues: the row is appended to the store (line 254).
PutValues(store, row) == Append(store, row)

\* The reset without the nine assignments of 0 (lines 260-268 left out).
ResetScratchKeepCounters(c) ==
  [interface_name |-> Zeroed, ipv4_address |-> Zeroed, ipv6_address |-> Zeroed,
   cnt |-> c]

\* The scratch state after a row was appended (lines 257-268); c is the
\* counters as the reads left them, all of which are set to 0.
ResetScratch(c) ==
  [interface_name |-> Zeroed, ipv4_address |-> Zeroed, ipv6_address |-> Zeroed,
   cnt |-> ZeroCounters]

\* An AF_INET entry whose conversion succeeded: copy the name and the address,
\* read the nine counters, append the row, reset (lines 216-268).
EmitRecord ==
  /\ AtEntry
  /\ os_ifaddrs[ifa].ifa_addr # NullAddr
  /\ os_ifaddrs[ifa].ifa_addr.sa_family = AF_INET
  /\ LET g == getnameinfo(os_ifaddrs[ifa], ifa, host)
         name == MemcpyStr(interface_name, os_ifaddrs[ifa].ifa_name)
         v4 == g.host
         r == ReadAll(1, name, cnt, sysfs, libc)
         z == ResetScratch(r.cnt)
     IN /\ g.ret_val = "0"
        /\ host' = g.host
        /\ tupstore' = PutValues(tupstore, Row(name, v4, ipv6_address, r.cnt, nulls))
        /\ log' = log \o r.diag
        /\ interface_name' = z.interface_name
        /\ ipv4_address' = z.ipv4_address
        /\ ipv6_address' = z.ipv6_address
        /\ cnt' = z.cnt
  /\ ifa' = ifa + 1
  /\ UNCHANGED <<env, pc, call, held, frees, nulls, first>>

\* ifa == NULL: freeifaddrs and return (lines 209, 272).
LoopExit ==
  /\ pc = "loop"
  /\ ifa > Len(os_ifaddrs)
  /\ held' = FALSE
  /\ frees' = frees + 1
  /\ pc' = "returned"
  /\ UNCHANGED <<env, call, ifa, locals, tupstore, log, first>>

Next ==
  \/ Enter
  \/ GetIfAddrsFailed
  \/ GetIfAddrs
  \/ SkipNullAddr
  \/ SkipOtherFamily
  \/ GetNameInfoFailed
  \/ EmitRecord
  \/ LoopExit

Spec == Init /\ [][Next]_vars

\* ------------------------------------------------------------ claim helpers
IsInet(e) == e.ifa_addr.sa_family = AF_INET
ConvFails(e) == IsInet(e) /\ e.ifa_addr.gni # "ok"
AllConvOk == \A i \in 1..Len(os_ifaddrs) : ~ConvFails(os_ifaddrs[i])
Ended == pc \in {"returned", "error"}

\* The indices of the AF_INET entries among the first n, in list order.
RECURSIVE InetIdx(_)
InetIdx(n) ==
  IF n = 0 THEN <<>>
  ELSE IF IsInet(os_ifaddrs[n]) THEN Append(InetIdx(n - 1), n)
  ELSE InetIdx(n - 1)

\* The i-th row of the store was made from the entry InetIdx(..)[i].
EntryOfRow(j) == os_ifaddrs[InetIdx(Len(os_ifaddrs))[j]]

\* The integer written at the start of a line: optional white space, an
\* optional sign, decimal digits; 0 when there are no digits.
LeadingInteger(line) ==
  LET t == SkipSpace(line)
      signed == t # <<>> /\ Head(t) \in {"-", "+"}
      m == DigitsValue(IF signed THEN Tail(t) ELSE t, 0)
  IN IF t # <<>> /\ Head(t) = "-" THEN 0 - m ELSE m

HasFirstLine(f) == f.st = "ok" /\ f.bytes # <<>>
RowsNamed(n) == {j \in 1..Len(tupstore) : tupstore[j].interface_name = n}
InetNamed(n) ==
  {i \in 1..Len(os_ifaddrs) : IsInet(os_ifaddrs[i]) /\ os_ifaddrs[i].ifa_name = n}
WarningsFor(path) ==
  {i \in 1..Len(log) : log[i].level = "WARNING" /\ log[i].file = path}

\* The scan has not lost or added a row: one row per AF_INET entry passed.
RowPerInetPassed == Len(tupstore) = Len(InetIdx(ifa - 1))

\* A hard error has one of the two causes the code raises it for.
ErrorIsRaised ==
  pc = "error" =>
    \/ getifaddrs_ret # 0
    \/ ifa <= Len(os_ifaddrs) /\ ConvFails(os_ifaddrs[ifa])

\* ------------------------------------------------------------------ claims

\* C1: when getifaddrs succeeds and every AF_INET entry converts, the rows are
\* exactly the AF_INET entries with an address, one each, in list order, with
\* the entry's name and address; entries with no address or another family
\* give no row, so N AF_INET entries give N rows at return.
C1_OneRowPerInetEntryInOrder ==
  (pc \in {"loop", "returned"} /\ AllConvOk) =>
    /\ RowPerInetPassed
    /\ (pc = "returned" => Len(tupstore) = Len(InetIdx(Len(os_ifaddrs))))
    /\ \A j \in 1..Len(tupstore) :
         /\ tupstore[j].interface_name = EntryOfRow(j).ifa_name
         /\ tupstore[j].ipv4_address =
              NumericHost(SinAddr(InetIdx(Len(os_ifaddrs))[j]))

C1_Witness ==
  /\ pc = "returned" /\ AllConvOk
  /\ Len(os_ifaddrs) = 2 /\ Len(tupstore) = 2
  /\ tupstore[1].interface_name = lo /\ tupstore[2].interface_name = eth0

\* C2: a failed conversion of an AF_INET entry does not end the scan: the
\* entry still gets a row with ipv4_address null, and so does every later
\* AF_INET entry; only the failure of getifaddrs ends the scan early.
C2_ConversionFailureDoesNotAbort ==
  (Ended /\ getifaddrs_ret = 0) =>
    /\ pc = "returned"
    /\ Len(tupstore) = Len(InetIdx(Len(os_ifaddrs)))
    /\ \A j \in 1..Len(tupstore) :
         ConvFails(EntryOfRow(j)) => tupstore[j].nulls["ipv4_address"]

\* C3: a counter file that cannot be opened leaves that counter at 0 and
\* raises no hard error; the row is still appended with that field 0, and
\* every other counter, of this row and of the rows of other interfaces, has
\* the value it has when that file is readable.
C3_AbsentFileGivesZeroAndNothingElseChanges ==
  /\ RowPerInetPassed
  /\ ErrorIsRaised
  /\ \A j \in 1..Len(tupstore) : \A k \in Kinds :
       LET n == EntryOfRow(j).ifa_name
       IN /\ sysfs[n][k] = NoFile => tupstore[j].counters[k] = 0
          /\ sysfs[n][k] = BaseSysfs[n][k] =>
               tupstore[j].counters[k] =
                 Int64GetDatumFast(ReadFileContent(
                   SysPath(n, k), 0, BaseSysfs, libc).data)

C3_Witness ==
  /\ pc = "returned"
  /\ \E k \in Kinds : sysfs[eth0][k] = NoFile
  /\ Len(tupstore) = 2
  /\ tupstore[1].interface_name = lo /\ tupstore[2].interface_name = eth0

\* C4: an invocation ends either normally with a row for every AF_INET entry,
\* or with a hard error and no row appended.
C4_CompleteOrNothing ==
  Ended =>
    \/ pc = "returned" /\ Len(tupstore) = Len(InetIdx(Len(os_ifaddrs)))
    \/ pc = "error" /\ tupstore = <<>>

\* C5 as stated: at most one row per distinct interface name.
C5_AtMostOneRowPerName ==
  \A i, j \in 1..Len(tupstore) :
    i # j => tupstore[i].interface_name # tupstore[j].interface_name

\* C5 amended: at most one row per AF_INET address entry: the rows with a
\* given name are never more than the AF_INET entries with that name, and
\* exactly as many when the scan returns.
C5_AtMostOneRowPerInetEntry ==
  \A n \in Names :
    /\ Cardinality(RowsNamed(n)) <= Cardinality(InetNamed(n))
    /\ pc = "returned" => Cardinality(RowsNamed(n)) = Cardinality(InetNamed(n))

C5_Witness ==
  /\ pc = "returned"
  /\ Cardinality(InetNamed(eth0)) = 2
  /\ Cardinality(RowsNamed(eth0)) = 2

\* C6: once getifaddrs has succeeded, the list is freed exactly once before
\* the invocation ends, on every exit path.
C6_ListFreedOnEveryExit ==
  (Ended /\ getifaddrs_ret = 0) => (frees = 1 /\ ~held)

\* C7: for a file that opens, the counter is the integer written at the start
\* of its first line (as a 64-bit value), 0 when there is none, and nothing is
\* reported for it.
C7_ValueIsLeadingInteger ==
  \A j \in 1..Len(tupstore) : \A k \in Kinds :
    LET n == EntryOfRow(j).ifa_name
        f == sysfs[n][k]
    IN f.st # "absent" =>
         /\ (tupstore[j].counters[k] - LeadingInteger(FirstLine(f.bytes)))
              % Modulus = 0
         /\ WarningsFor(SysPath(n, k)) = {}

\* C8: the rows are a function of the environment alone: each row is what its
\* own entry and its own files give from zeroed scratch state, with nothing
\* left from an earlier entry; and a second invocation against the same
\* environment ends as the first did, with the same rows.
C8_RowsDependOnEnvironmentOnly ==
  /\ \A j \in 1..Len(tupstore) :
       LET i == InetIdx(Len(os_ifaddrs))[j]
           n == os_ifaddrs[i].ifa_name
       IN tupstore[j] =
            [interface_name |-> n,
             ipv4_address |-> NumericHost(SinAddr(i)),
             ipv6_address |-> Zeroed,
             counters |-> [k \in Kinds |-> Int64GetDatumFast(
                ReadFileContent(SysPath(n, k), 0, sysfs, libc).data)],
             nulls |-> NoNulls]
  /\ (call = "second" /\ Ended) =>
       (pc = first.pc /\ tupstore = first.tupstore /\ log = first.log)

C8_Witness ==
  /\ call = "second" /\ pc = "returned"
  /\ \E k \in Kinds : sysfs[eth0][k] = NoFile
  /\ Len(tupstore) = 2
  /\ tupstore[1].interface_name = eth0 /\ tupstore[2].interface_name = lo

\* C9 as stated: a counter whose file cannot be opened, or opens but gives no
\* first line, is 0 and a warning is emitted for it.
C9_UnavailableIsZeroWithWarning ==
  \A j \in 1..Len(tupstore) : \A k \in Kinds :
    LET n == EntryOfRow(j).ifa_name
    IN ~HasFirstLine(sysfs[n][k]) =>
         /\ tupstore[j].counters[k] = 0
         /\ WarningsFor(SysPath(n, k)) # {}

\* C9 amended: the counter is 0 in both cases and the scan continues; a warning
\* is emitted, once per read, only when the file cannot be opened; when it
\* opens but gives no first line, nothing is reported.
C9_WarningOnlyWhenNotOpened ==
  /\ RowPerInetPassed
  /\ ErrorIsRaised
  /\ \A j \in 1..Len(tupstore) : \A k \in Kinds :
       LET n == EntryOfRow(j).ifa_name
           f == sysfs[n][k]
       IN /\ ~HasFirstLine(f) => tupstore[j].counters[k] = 0
          /\ f.st = "absent" =>
               Cardinality(WarningsFor(SysPath(n, k))) = Cardinality(RowsNamed(n))
          /\ f.st # "absent" => WarningsFor(SysPath(n, k)) = {}

C9_Witness ==
  /\ pc = "returned"
  /\ \E k \in Kinds : sysfs[eth0][k] = ReadErr
  /\ Len(tupstore) = 2
  /\ tupstore[1].interface_name = eth0 /\ tupstore[2].interface_name = eth0

\* C10: every counter field of every row is an unsigned 64-bit value,
\* whatever the file holds.
C10_CountersAreUnsigned ==
  \A j \in 1..Len(tupstore) : \A k \in Kinds :
    tupstore[j].counters[k] \in 0..(Modulus - 1)

====
